---- MODULE Spec2Model ----
(***************************************************************************)
(* Model of script.js (TSM Group Maker): the item-id extractor, the name   *)
(* extractor, the Wowhead name resolver and the convertToTSM orchestration.*)
(* Text is a sequence of one-character strings; every regular expression   *)
(* of the source is modelled by a matcher over that sequence.              *)
(***************************************************************************)
EXTENDS Integers, Sequences, FiniteSets

\* ---------------------------------------------------------------- bounds
MaxExtractChunks == 3
MaxConvChunks == 4
MaxCalls == 2

\* ------------------------------------------------------------ characters
Digits == {"0", "1", "2", "3", "4", "5", "6", "7", "8", "9"}
LowerLetters == {"a", "b", "c", "d", "e", "f", "g", "h", "i", "j", "k", "l", "m",
                 "n", "o", "p", "q", "r", "s", "t", "u", "v", "w", "x", "y", "z"}
UpperLetters == {"I", "S"}
WhiteSpace == {" "}
\* a lone UTF-16 high surrogate, which a JS string (and a textarea) can hold
LoneSurrogate == "uD800"

Lower(c) == IF c = "I" THEN "i" ELSE IF c = "S" THEN "s" ELSE c
IsDigit(c) == c \in Digits
IsLetter(c) == c \in LowerLetters \cup UpperLetters
IsWordChar(c) == IsDigit(c) \/ IsLetter(c) \/ c = "_"
At(s, p) == IF p \in 1..Len(s) THEN s[p] ELSE "EOF"
Range(s) == {s[k] : k \in 1..Len(s)}

\* a literal of a case-insensitive pattern, matched at position p
LitAt(s, p, lit) == \A k \in 1..Len(lit) : Lower(At(s, p + k - 1)) = lit[k]

RECURSIVE DigitsEnd(_, _)
\* \d+ is greedy: the first position at or after p that holds no digit
DigitsEnd(s, p) == IF IsDigit(At(s, p)) THEN DigitsEnd(s, p + 1) ELSE p

RECURSIVE LettersEnd(_, _)
LettersEnd(s, p) == IF IsLetter(At(s, p)) THEN LettersEnd(s, p + 1) ELSE p

\* Set.prototype.add on an insertion-ordered Set
SetAdd(set, x) == IF x \in Range(set) THEN set ELSE Append(set, x)

\* ------------------------------------------------------- regex matchers
\* /item[/=](\d+)/i at p: 0 when it does not match, else where the digits start
ItemEqAt(s, p) ==
  IF LitAt(s, p, <<"i", "t", "e", "m">>) /\ At(s, p + 4) \in {"/", "="} /\ IsDigit(At(s, p + 5))
  THEN p + 5 ELSE 0

\* /wowhead\.com\/[a-z]*\/?item[=/](\d+)/gi at p: where the digits start, or 0.
\* [a-z]* is greedy and backtracks, \/? prefers the slash.
WowheadAt(s, p) ==
  IF ~LitAt(s, p, <<"w", "o", "w", "h", "e", "a", "d", ".", "c", "o", "m", "/">>) THEN 0
  ELSE LET q == p + 12
           cands == {<<k, sl>> \in (0..(LettersEnd(s, q) - q)) \X {0, 1} :
                       /\ (sl = 1 => At(s, q + k) = "/")
                       /\ ItemEqAt(s, q + k + sl) # 0}
       IN IF cands = {} THEN 0
          ELSE LET best == CHOOSE c \in cands :
                              \A d \in cands : c[1] > d[1] \/ (c[1] = d[1] /\ c[2] >= d[2])
               IN ItemEqAt(s, q + best[1] + best[2])

\* /\b(\d+)\b/g at p
NumberAt(s, p) ==
  IF /\ IsDigit(At(s, p))
     /\ ~IsWordChar(At(s, p - 1))
     /\ ~IsWordChar(At(s, DigitsEnd(s, p)))
  THEN p ELSE 0

\* /item:(\d+)/gi at p
ItemColonAt(s, p) ==
  IF LitAt(s, p, <<"i", "t", "e", "m", ":">>) /\ IsDigit(At(s, p + 5)) THEN p + 5 ELSE 0

\* /i:(\d+)/gi at p
TsmAt(s, p) ==
  IF LitAt(s, p, <<"i", ":">>) /\ IsDigit(At(s, p + 2)) THEN p + 2 ELSE 0

CaptureStart(pat, s, p) ==
  CASE pat = "wowheadUrlPattern" -> WowheadAt(s, p)
    [] pat = "numberPattern" -> NumberAt(s, p)
    [] pat = "itemFormatPattern" -> ItemColonAt(s, p)
    [] pat = "tsmFormatPattern" -> TsmAt(s, p)

Least(S) == CHOOSE p \in S : \A q \in S : p <= q

\* pattern.exec(text) with lastIndex = from: the leftmost position at or after
\* `from` where the pattern matches, 0 (null) when there is none
Exec(pat, s, from) ==
  LET hits == {p \in from..Len(s) : CaptureStart(pat, s, p) # 0}
  IN IF hits = {} THEN 0 ELSE Least(hits)

RECURSIVE ExecAll(_, _, _, _)
\* while ((match = pattern.exec(text)) !== null) itemIds.add(match[1]);
\* `from` is the pattern's lastIndex
ExecAll(pat, s, from, itemIds) ==
  LET at == Exec(pat, s, from)
      d == CaptureStart(pat, s, at)
  IN IF at = 0 THEN itemIds
     ELSE ExecAll(pat, s, DigitsEnd(s, d), SetAdd(itemIds, SubSeq(s, d, DigitsEnd(s, d) - 1)))

\* /<[a-z][\s\S]*>/i.test(text)
isHTML(s) ==
  \E p \in 1..Len(s) : /\ s[p] = "<"
                       /\ IsLetter(At(s, p + 1))
                       /\ \E q \in (p + 2)..Len(s) : s[q] = ">"

\* ------------------------------------------------ DOMParser (text/html)
\* The HTML tokenizer as far as it decides which <a href> elements exist:
\* start tags, attribute names, quoted and unquoted attribute values; a tag
\* that is still open at the end of the text is dropped.  Character
\* references, comments and raw-text elements are outside the alphabet.
\* the first position at or after p that holds a character of `stop`, or the end
Until(s, p, stop) ==
  LET hits == {q \in p..Len(s) : s[q] \in stop}
  IN IF hits = {} THEN (IF p > Len(s) THEN p ELSE Len(s) + 1) ELSE Least(hits)

RECURSIVE SkipSpace(_, _)
SkipSpace(s, p) == IF At(s, p) \in WhiteSpace THEN SkipSpace(s, p + 1) ELSE p

LowerSeq(s) == [k \in 1..Len(s) |-> Lower(s[k])]

RECURSIVE TokenizeData(_, _, _)
RECURSIVE TokenizeAttrs(_, _, _, _, _)
\* inside a tag, before an attribute name; href is <<>> or <<value>>
TokenizeAttrs(s, p, name, href, hrefs) ==
  LET c == At(s, p) IN
  IF c = "EOF" THEN hrefs
  ELSE IF c \in WhiteSpace \cup {"/"} THEN TokenizeAttrs(s, p + 1, name, href, hrefs)
  ELSE IF c = ">" THEN
    TokenizeData(s, p + 1,
                 IF name = <<"a">> /\ href # <<>> /\ href[1] # <<>>
                 THEN Append(hrefs, href[1]) ELSE hrefs)
  ELSE
    LET nameEnd == Until(s, p + 1, WhiteSpace \cup {"/", ">", "="})
        attr == LowerSeq(SubSeq(s, p, nameEnd - 1))
        afterName == SkipSpace(s, nameEnd)
        set(v) == IF attr = <<"h", "r", "e", "f">> /\ href = <<>> THEN <<v>> ELSE href
    IN IF At(s, afterName) # "=" THEN TokenizeAttrs(s, afterName, name, set(<<>>), hrefs)
       ELSE LET v == SkipSpace(s, afterName + 1) IN
            IF At(s, v) \in {"'", "\""} THEN
              LET close == Until(s, v + 1, {At(s, v)}) IN
              IF At(s, close) = "EOF" THEN hrefs
              ELSE TokenizeAttrs(s, close + 1, name, set(SubSeq(s, v + 1, close - 1)), hrefs)
            ELSE IF At(s, v) = ">" THEN TokenizeAttrs(s, v, name, set(<<>>), hrefs)
            ELSE LET vEnd == Until(s, v, WhiteSpace \cup {">"}) IN
                 TokenizeAttrs(s, vEnd, name, set(SubSeq(s, v, vEnd - 1)), hrefs)

\* the data state
TokenizeData(s, p, hrefs) ==
  IF p > Len(s) THEN hrefs
  ELSE IF s[p] = "<" /\ IsLetter(At(s, p + 1)) THEN
    LET nameEnd == Until(s, p + 1, WhiteSpace \cup {"/", ">"}) IN
    TokenizeAttrs(s, nameEnd, LowerSeq(SubSeq(s, p + 1, nameEnd - 1)), <<>>, hrefs)
  ELSE IF s[p] = "<" /\ At(s, p + 1) = "/" /\ IsLetter(At(s, p + 2)) THEN
    TokenizeAttrs(s, Until(s, p + 2, WhiteSpace \cup {"/", ">"}), <<"/">>, <<>>, hrefs)
  ELSE TokenizeData(s, Until(s, p + 1, {"<"}), hrefs)

\* doc.querySelectorAll('a[href]') mapped to link.getAttribute('href'),
\* keeping the values that pass `if (href)`
AnchorHrefs(text) == TokenizeData(text, 1, <<>>)

RECURSIVE FirstItemEq(_, _)
\* href.match(/item[/=](\d+)/i): the first match, 0 when there is none
FirstItemEq(href, p) ==
  IF p > Len(href) THEN 0
  ELSE IF ItemEqAt(href, p) # 0 THEN ItemEqAt(href, p) ELSE FirstItemEq(href, p + 1)

RECURSIVE AddLinkIds(_, _, _)
AddLinkIds(hrefs, k, itemIds) ==
  IF k > Len(hrefs) THEN itemIds
  ELSE LET d == FirstItemEq(hrefs[k], 1)
       IN AddLinkIds(hrefs, k + 1,
                     IF d = 0 THEN itemIds
                     ELSE SetAdd(itemIds, SubSeq(hrefs[k], d, DigitsEnd(hrefs[k], d) - 1)))

\* --------------------------------------------------------- extractItemIds
NumberPassAlways(text) == TRUE
\* line 38: `if (!isHTML)` guards the bare-number pass
NumberPass(text) == ~isHTML(text)

\* The Set is kept as the sequence of its elements in insertion order.
extractItemIds(text) ==
  LET links == IF isHTML(text) THEN AddLinkIds(AnchorHrefs(text), 1, <<>>) ELSE <<>>
      urls == ExecAll("wowheadUrlPattern", text, 1, links)
      numbers == IF NumberPass(text) THEN ExecAll("numberPattern", text, 1, urls) ELSE urls
      items == ExecAll("itemFormatPattern", text, 1, numbers)
  IN ExecAll("tsmFormatPattern", text, 1, items)

\* ------------------------------------------------------- extractItemNames
RECURSIVE LastOf(_, _, _)
LastOf(s, p, c) == IF p < 1 THEN 0 ELSE IF s[p] = c THEN p ELSE LastOf(s, p - 1, c)
\* the greedy /\[(.+)\]/ instead
NameAtGreedy(s, p) ==
  IF At(s, p) # "[" THEN 0
  ELSE IF LastOf(s, Len(s), "]") > p + 1 THEN LastOf(s, Len(s), "]") ELSE 0

\* /\[([^\]]+)\]/g at p: the position of the closing bracket, or 0
NameAt(s, p) ==
  IF At(s, p) # "[" THEN 0
  ELSE LET close == Until(s, p + 1, {"]"})
       IN IF At(s, close) = "]" /\ close > p + 1 THEN close ELSE 0

RECURSIVE ExecNames(_, _, _)
\* while ((match = itemNamePattern.exec(text)) !== null) itemNames.push(match[1]);
ExecNames(s, from, itemNames) ==
  LET hits == {p \in from..Len(s) : NameAt(s, p) # 0}
  IN IF hits = {} THEN itemNames
     ELSE ExecNames(s, NameAt(s, Least(hits)) + 1,
                    Append(itemNames, SubSeq(s, Least(hits) + 1, NameAt(s, Least(hits)) - 1)))

extractItemNames(text) == ExecNames(text, 1, <<>>)

\* ------------------------------------------------- Number, sort, format
DigitChars == <<"0", "1", "2", "3", "4", "5", "6", "7", "8", "9">>
DigitValue(c) == (CHOOSE n \in 1..Len(DigitChars) : DigitChars[n] = c) - 1

RECURSIVE DecimalValue(_)
DecimalValue(s) ==
  IF s = <<>> THEN 0 ELSE 10 * DecimalValue(SubSeq(s, 1, Len(s) - 1)) + DigitValue(s[Len(s)])

IsDigitString(s) == s # <<>> /\ \A k \in 1..Len(s) : IsDigit(s[k])

\* Number(id) is NaN unless the string is a decimal literal
IsNaN(s) == ~(IsDigitString(s) \/ (Len(s) > 1 /\ s[1] = "-" /\ IsDigitString(Tail(s))))
Number(s) == IF s[1] = "-" THEN 0 - DecimalValue(Tail(s)) ELSE DecimalValue(s)

\* (a, b) => Number(a) - Number(b); Array.prototype.sort reads a NaN result as +0
SortCompare(a, b) == IF IsNaN(a) \/ IsNaN(b) THEN 0 ELSE Number(a) - Number(b)

RECURSIVE InsertStable(_, _)
InsertStable(sorted, x) ==
  IF sorted = <<>> THEN <<x>>
  ELSE IF SortCompare(sorted[Len(sorted)], x) <= 0 THEN Append(sorted, x)
  ELSE Append(InsertStable(SubSeq(sorted, 1, Len(sorted) - 1), x), sorted[Len(sorted)])

RECURSIVE sort(_)
\* Array.from(itemIds).sort((a, b) => Number(a) - Number(b)): a stable sort.
\* With a NaN beside two different numbers the comparator is no ordering and
\* the language leaves the order to the engine; the insertion sort that engines
\* run on an array this short is modelled.
sort(arr) ==
  IF arr = <<>> THEN <<>>
  ELSE InsertStable(sort(SubSeq(arr, 1, Len(arr) - 1)), arr[Len(arr)])

TokenNoColon(id) == <<"i">> \o id
\* id => `i:${id}`
Token(id) == <<"i", ":">> \o id

RECURSIVE tsmFormat(_)
\* sortedIds.map(id => `i:${id}`).join(',')
tsmFormat(sortedIds) ==
  IF sortedIds = <<>> THEN <<>>
  ELSE IF Len(sortedIds) = 1 THEN Token(sortedIds[1])
  ELSE tsmFormat(SubSeq(sortedIds, 1, Len(sortedIds) - 1)) \o <<",">> \o Token(sortedIds[Len(sortedIds)])

\* --------------------------------------------------- encodeURIComponent
Unreserved(c) == IsLetter(c) \/ IsDigit(c) \/ c \in {"-", "_", ".", "!", "~", "*", "'", "(", ")"}
PercentCode(c) ==
  CASE c = " " -> <<"%", "2", "0">>
    [] c = "[" -> <<"%", "5", "B">>
    [] c = "]" -> <<"%", "5", "D">>
    [] c = ":" -> <<"%", "3", "A">>
    [] c = "," -> <<"%", "2", "C">>
    [] c = "<" -> <<"%", "3", "C">>
    [] c = ">" -> <<"%", "3", "E">>
    [] c = "=" -> <<"%", "3", "D">>
    [] c = "/" -> <<"%", "2", "F">>
    [] OTHER -> <<"%", "?", "?">>

\* encodeURIComponent throws URIError on a lone surrogate
ThrowsURIError(s) == LoneSurrogate \in Range(s)

RECURSIVE encodeURIComponent(_)
encodeURIComponent(s) ==
  IF s = <<>> THEN <<>>
  ELSE (IF Unreserved(s[1]) THEN <<s[1]>> ELSE PercentCode(s[1])) \o encodeURIComponent(Tail(s))

\* `https://www.wowhead.com/items?filter=na=${encodeURIComponent(itemName)}`
SearchUrl(itemName) == <<"https://www.wowhead.com/items?filter=na=">> \o encodeURIComponent(itemName)

\* ------------------------------------------------------------ escapeHtml
RECURSIVE escapeHtml(_)
\* div.textContent = text; return div.innerHTML
escapeHtml(s) ==
  IF s = <<>> THEN <<>>
  ELSE (CASE s[1] = "<" -> <<"&", "l", "t", ";">>
          [] s[1] = ">" -> <<"&", "g", "t", ";">>
          [] s[1] = "&" -> <<"&", "a", "m", "p", ";">>
          [] OTHER -> <<s[1]>>) \o escapeHtml(Tail(s))

\* failedSearches.map(item => `<a href="${item.searchUrl}" ...>${escapeHtml(item.name)}</a>`)
formatSearchLinks(failedSearches) ==
  [k \in 1..Len(failedSearches) |->
     [href |-> failedSearches[k].searchUrl, label |-> escapeHtml(failedSearches[k].name)]]

\* ------------------------------------------------------------ input texts
RECURSIVE Flatten(_)
Flatten(chunks) == IF chunks = <<>> THEN <<>> ELSE chunks[1] \o Flatten(Tail(chunks))
TextsOf(chunkSet, maxChunks) ==
  {Flatten(cs) : cs \in UNION {[1..n -> chunkSet] : n \in 0..maxChunks}}

AnchorChunk == <<"<", "a", " ", "h", "r", "e", "f", "=", "'", "/", "i", "t", "e", "m", "=", "1", "2", "'", ">",
                 "S", "w", "o", "r", "d", "<", "/", "a", ">">>
UrlChunk == <<"w", "o", "w", "h", "e", "a", "d", ".", "c", "o", "m", "/", "i", "t", "e", "m", "=">>
ExtractChunks ==
  {AnchorChunk, UrlChunk, <<"<", "b", ">">>, <<"i", "t", "e", "m", ":">>, <<"i", ":">>, <<"I", ":">>,
   <<"7">>, <<"1", "0">>, <<"0">>, <<" ">>, <<",">>, <<"x">>}
ExtractTexts == TextsOf(ExtractChunks, MaxExtractChunks)

ConvChunks ==
  {<<"[", "n", "]">>, <<"[">>, <<"]">>, <<" ">>, <<"7">>, <<"1", "0">>, <<"i", ":">>, <<LoneSurrogate>>}
ConvTexts == TextsOf(ConvChunks, MaxConvChunks)

OverlapTexts ==
  {<<"7">>, <<"[", "n", "]", "1", "0">>, <<"[", "n", "]", "[", "m", "]">>}

\* ------------------------------------------- what a lookup can come back as
Num(n) == [t |-> "number", n |-> n, s |-> <<>>]
Str(s) == [t |-> "string", n |-> 0, s |-> s]
Undefined == [t |-> "undefined", n |-> 0, s |-> <<>>]
Truthy(j) == (j.t = "number" /\ j.n # 0) \/ (j.t = "string" /\ j.s # <<>>)

RECURSIVE NatToChars(_)
NatToChars(n) == IF n < 10 THEN <<DigitChars[n + 1]>> ELSE NatToChars(n \div 10) \o <<DigitChars[(n % 10) + 1]>>
\* data[0].id.toString()
ToString(j) ==
  IF j.t = "string" THEN j.s
  ELSE IF j.n < 0 THEN <<"-">> \o NatToChars(0 - j.n) ELSE NatToChars(j.n)

\* A response body, described by what the resolver's two patterns find in it:
\* listview is "absent" (no Listview block), "unparsable" (JSON.parse or the
\* read of data[0].id throws) or "data" with the parsed array; fallback is the
\* capture of /\/item[=/](\d+)/ in the body, <<>> when there is none.
Entry(id, name) == [id |-> id, name_enus |-> Undefined, name |-> name]
Body(listview, data, fallback) == [listview |-> listview, data |-> data, fallback |-> fallback]
Bodies ==
  {Body("absent", <<>>, <<>>),
   Body("absent", <<>>, <<"7">>),
   Body("unparsable", <<>>, <<>>),
   Body("data", <<>>, <<"3">>),
   Body("data", <<Entry(Num(12), Str(<<"S", "w", "o", "r", "d">>))>>, <<"3">>),
   Body("data", <<Entry(Num(0), Undefined)>>, <<>>),
   Body("data", <<Entry(Num(-7), Undefined)>>, <<>>),
   Body("data", <<Entry(Str(<<"x">>), Undefined)>>, <<>>)}

Found(id, itemName, foundName) ==
  [success |-> TRUE, id |-> id, searchedName |-> itemName, foundName |-> foundName,
   name |-> <<>>, error |-> "", searchUrl |-> <<>>]
NotFound(itemName, error, searchUrl) ==
  [success |-> FALSE, id |-> <<>>, searchedName |-> <<>>, foundName |-> <<>>,
   name |-> itemName, error |-> error, searchUrl |-> searchUrl]

\* searchWowheadForItemName from `const html = await response.text()` on
ResultOfBody(itemName, searchUrl, html) ==
  IF /\ html.listview = "data"
     /\ Len(html.data) > 0
     /\ Truthy(html.data[1].id)
  THEN Found(ToString(html.data[1].id), itemName,
             IF Truthy(html.data[1].name_enus) THEN html.data[1].name_enus.s
             ELSE IF Truthy(html.data[1].name) THEN html.data[1].name.s
             ELSE itemName)
  ELSE IF html.fallback # <<>> THEN Found(html.fallback, itemName, itemName)
  ELSE NotFound(itemName, "No item found", searchUrl)

\* ------------------------------------------------------------------ state
VARIABLES
  input,        \* document.getElementById('input').value
  output,       \* document.getElementById('output').value
  itemCount,    \* itemCountEl.textContent
  uniqueCount,  \* uniqueCountEl.textContent
  message,      \* what showMessage last put into the message element
  calls,        \* the activations of convertToTSM, in the order they started
  started,      \* how many activations have started
  inflight,     \* the fetches that are on the network
  text, itemIds, rendered, reExtracted, step    \* the extractor applied on its own

vars == <<input, output, itemCount, uniqueCount, message, calls, started, inflight,
          text, itemIds, rendered, reExtracted, step>>
pageVars == <<input, output, itemCount, uniqueCount, message, calls, started, inflight>>
extractVars == <<text, itemIds, rendered, reExtracted, step>>

Message(kind, type, html, count, found, links) ==
  [kind |-> kind, type |-> type, isHTML |-> html, count |-> count, found |-> found, links |-> links]
NoMessage == Message("none", "", FALSE, 0, <<>>, <<>>)

IdleCall ==
  [pc |-> "idle", input |-> <<>>, itemIds |-> <<>>, itemNames |-> <<>>, k |-> 0,
   searchUrl |-> <<>>, failedSearches |-> <<>>, foundItems |-> <<>>, sortedIds |-> <<>>,
   exit |-> "none"]

Page(out, ic, uc, msg) == [output |-> out, itemCount |-> ic, uniqueCount |-> uc, message |-> msg]

\* input.trim() is empty
IsBlank(s) == \A k \in 1..Len(s) : s[k] \in WhiteSpace

\* ------------------------------------------------------------ convertToTSM
EmptyExitNoLinks(failedSearches) == "novalid"
\* lines 176 and 185: which of the two empty-result exits is taken
EmptyExit(failedSearches) == IF Len(failedSearches) > 0 THEN "manual" ELSE "novalid"

\* Lines 172-219: sort, the two empty-result exits, render, the final message.
Finish(call, page) ==
  {LET sortedIds == sort(call.itemIds)
       n == Len(sortedIds)
       done(exit) == [call EXCEPT !.pc = "done", !.sortedIds = sortedIds, !.exit = exit]
       links == formatSearchLinks(call.failedSearches)
       found == [j \in 1..Len(call.foundItems) |->
                   [foundName |-> escapeHtml(call.foundItems[j].foundName),
                    id |-> escapeHtml(call.foundItems[j].id)]]
   IN IF n = 0 /\ EmptyExit(call.failedSearches) = "manual"
      THEN [call |-> done("manual"),
            page |-> Page(<<>>, 0, 0, Message("manual", "error", TRUE, 0, <<>>, links))]
      ELSE IF n = 0
      THEN [call |-> done("novalid"),
            page |-> Page(<<>>, 0, 0, Message("novalid", "error", FALSE, 0, <<>>, <<>>))]
      ELSE [call |-> done("success"),
            page |-> Page(tsmFormat(sortedIds), n, n,
                          IF Len(call.failedSearches) > 0
                          THEN Message("success", "info", TRUE, n, found, links)
                          ELSE IF Len(call.foundItems) > 0
                          THEN Message("success", "success", TRUE, n, found, <<>>)
                          ELSE Message("success", "success", FALSE, n, <<>>, <<>>))]}

\* Lines 159-160 and 65-70: the loop reaches name k and calls the resolver, which
\* builds searchUrl outside its try block and then awaits fetch.  A URIError
\* thrown while building searchUrl rejects the resolver's promise, and with it
\* convertToTSM's.
Loop(call, k, page) ==
  IF k > Len(call.itemNames) THEN Finish(call, page)
  ELSE IF ThrowsURIError(call.itemNames[k])
  THEN {[call |-> [call EXCEPT !.pc = "rejected", !.k = k], page |-> page]}
  ELSE {[call |-> [call EXCEPT !.pc = "fetch", !.k = k,
                               !.searchUrl = SearchUrl(call.itemNames[k])],
         page |-> page]}

\* a loop that leaves out the name after each lookup
MergeSkipping(call, result, page) ==
  Loop(IF result.success
       THEN [call EXCEPT !.itemIds = SetAdd(@, result.id),
                         !.foundItems = Append(@, [searchedName |-> result.searchedName,
                                                   foundName |-> result.foundName,
                                                   id |-> result.id])]
       ELSE [call EXCEPT !.failedSearches = Append(@, [name |-> call.itemNames[call.k],
                                                       searchUrl |-> result.searchUrl])],
       call.k + 2, page)

\* Lines 161-168: the resolver's result is merged, then the loop goes on
Merge(call, result, page) ==
  Loop(IF result.success
       THEN [call EXCEPT !.itemIds = SetAdd(@, result.id),
                         !.foundItems = Append(@, [searchedName |-> result.searchedName,
                                                   foundName |-> result.foundName,
                                                   id |-> result.id])]
       ELSE [call EXCEPT !.failedSearches = Append(@, [name |-> call.itemNames[call.k],
                                                       searchUrl |-> result.searchUrl])],
       call.k + 1, page)

\* Lines 137-157: from the read of the input field to the loop
Begin(text0, page) ==
  IF IsBlank(text0)
  THEN {[call |-> [IdleCall EXCEPT !.pc = "done", !.input = text0, !.exit = "blank"],
         page |-> [page EXCEPT !.message = Message("enter", "error", FALSE, 0, <<>>, <<>>)]]}
  ELSE LET call == [IdleCall EXCEPT !.input = text0,
                                    !.itemIds = extractItemIds(text0),
                                    !.itemNames = extractItemNames(text0)]
       IN Loop(call, 1,
               IF Len(call.itemNames) > 0
               THEN [page EXCEPT !.message =
                        Message("searching", "info", FALSE, Len(call.itemNames), <<>>, <<>>)]
               ELSE page)

ThePage == Page(output, itemCount, uniqueCount, message)
Request(c, call) == [call |-> c, k |-> call.k, target |-> call.searchUrl]
InFlight(c) == {r \in inflight : r.call = c}

\* The network after call c moved from `before` to `after`: its settled request
\* leaves, the request of its next fetch enters.
Network(c, after) ==
  (inflight \ InFlight(c)) \cup (IF after.pc = "fetch" THEN {Request(c, after)} ELSE {})

Apply(c, next) ==
  /\ calls' = [calls EXCEPT ![c] = next.call]
  /\ output' = next.page.output
  /\ itemCount' = next.page.itemCount
  /\ uniqueCount' = next.page.uniqueCount
  /\ message' = next.page.message
  /\ inflight' = Network(c, next.call)

\* convertToTSM() is called (button or Ctrl/Cmd+Enter) and runs to its first await
Convert(c) ==
  /\ c = started + 1
  /\ started' = c
  /\ \E next \in Begin(input, ThePage) : Apply(c, next)
  /\ UNCHANGED <<input, extractVars>>

\* fetch rejects (network error, or the 8 s AbortSignal fires): caught at line 105
FetchFails(c) ==
  /\ calls[c].pc = "fetch"
  /\ \E error \in {"Failed to fetch", "The operation timed out."} :
       \E next \in Merge(calls[c], NotFound(calls[c].itemNames[calls[c].k], error, calls[c].searchUrl),
                         ThePage) : Apply(c, next)
  /\ UNCHANGED <<input, started, extractVars>>

\* fetch resolves with !response.ok: line 75 throws, caught at line 105
FetchNotOk(c) ==
  /\ calls[c].pc = "fetch"
  /\ \E next \in Merge(calls[c], NotFound(calls[c].itemNames[calls[c].k], "Response not OK",
                                          calls[c].searchUrl), ThePage) : Apply(c, next)
  /\ UNCHANGED <<input, started, extractVars>>

\* fetch resolves with response.ok: the resolver awaits response.text()
FetchOk(c) ==
  /\ calls[c].pc = "fetch"
  /\ calls' = [calls EXCEPT ![c].pc = "text"]
  /\ UNCHANGED <<input, output, itemCount, uniqueCount, message, started, inflight, extractVars>>

\* response.text() rejects (the body is cut off, or the timeout fires)
TextFails(c) ==
  /\ calls[c].pc = "text"
  /\ \E next \in Merge(calls[c], NotFound(calls[c].itemNames[calls[c].k], "The operation timed out.",
                                          calls[c].searchUrl), ThePage) : Apply(c, next)
  /\ UNCHANGED <<input, started, extractVars>>

\* response.text() resolves with the body
TextArrives(c) ==
  /\ calls[c].pc = "text"
  /\ \E html \in Bodies :
       \E next \in Merge(calls[c], ResultOfBody(calls[c].itemNames[calls[c].k], calls[c].searchUrl, html),
                         ThePage) : Apply(c, next)
  /\ UNCHANGED <<input, started, extractVars>>

\* the user replaces the content of the input field
EditInput ==
  /\ started < MaxCalls
  /\ \E t \in OverlapTexts : t # input /\ input' = t
  /\ UNCHANGED <<output, itemCount, uniqueCount, message, calls, started, inflight, extractVars>>

PageInit(texts) ==
  /\ input \in texts
  /\ output = <<>>
  /\ itemCount = 0
  /\ uniqueCount = 0
  /\ message = NoMessage
  /\ calls = [c \in 1..MaxCalls |-> IdleCall]
  /\ started = 0
  /\ inflight = {}

ExtractIdle ==
  /\ text = <<>>
  /\ itemIds = <<>>
  /\ rendered = <<>>
  /\ reExtracted = <<>>
  /\ step = "idle"

\* one conversion of any text
Init == PageInit(ConvTexts) /\ ExtractIdle
Next ==
  \/ Convert(1)
  \/ FetchFails(1)
  \/ FetchNotOk(1)
  \/ FetchOk(1)
  \/ TextFails(1)
  \/ TextArrives(1)
Spec == Init /\ [][Next]_vars

\* conversions started while earlier ones are suspended
InitOverlap == PageInit(OverlapTexts) /\ ExtractIdle
NextOverlap ==
  \/ EditInput
  \/ \E c \in 1..MaxCalls :
       \/ Convert(c)
       \/ FetchFails(c)
       \/ FetchNotOk(c)
       \/ FetchOk(c)
       \/ TextFails(c)
       \/ TextArrives(c)
SpecOverlap == InitOverlap /\ [][NextOverlap]_vars

\* ------------------------------------------- the extractor on its own
Extract ==
  /\ step = "text"
  /\ itemIds' = extractItemIds(text)
  /\ step' = "extracted"
  /\ UNCHANGED <<text, rendered, reExtracted, pageVars>>

\* the canonical rendering of lines 173 and 194
Render ==
  /\ step = "extracted"
  /\ rendered' = tsmFormat(sort(itemIds))
  /\ step' = "rendered"
  /\ UNCHANGED <<text, itemIds, reExtracted, pageVars>>

ReExtract ==
  /\ step = "rendered"
  /\ reExtracted' = extractItemIds(rendered)
  /\ step' = "reextracted"
  /\ UNCHANGED <<text, itemIds, rendered, pageVars>>

InitExtract ==
  /\ PageInit({<<>>})
  /\ text \in ExtractTexts
  /\ itemIds = <<>>
  /\ rendered = <<>>
  /\ reExtracted = <<>>
  /\ step = "text"
NextExtract == Extract \/ Render \/ ReExtract
SpecExtract == InitExtract /\ [][NextExtract]_vars

\* ================================================================ claims
Calls == 1..MaxCalls

\* C1: extracting from the canonical rendering (ids sorted numerically, each
\* written i:<id>, joined by commas) of extractItemIds(text) gives the same set
\* of id strings as extractItemIds(text).
C1_Idempotent == step = "reextracted" => Range(reExtracted) = Range(itemIds)
C1_Witness ==
  /\ step = "reextracted"
  /\ isHTML(text)
  /\ Len(itemIds) >= 2
  /\ Range(reExtracted) = Range(itemIds)

\* the digit runs that stand alone: a non-word character or an end on both sides
StandaloneRuns(s) ==
  {SubSeq(s, p, q) : <<p, q>> \in {pq \in (1..Len(s)) \X (1..Len(s)) :
      /\ pq[1] <= pq[2]
      /\ \A k \in pq[1]..pq[2] : IsDigit(s[k])
      /\ ~IsWordChar(At(s, pq[1] - 1))
      /\ ~IsWordChar(At(s, pq[2] + 1))}}
LinkTargetIds(s) == Range(AddLinkIds(AnchorHrefs(s), 1, <<>>))
UrlIds(s) == Range(ExecAll("wowheadUrlPattern", s, 1, <<>>))
ColonIds(s) ==
  Range(ExecAll("itemFormatPattern", s, 1, <<>>)) \cup Range(ExecAll("tsmFormatPattern", s, 1, <<>>))

\* C2: when the text looks like markup, the ids are exactly those of link
\* targets, item-browser URLs and item:/i: tokens (no bare digit run enters
\* otherwise), so the anchor followed by " 7" gives {12}; when it does not,
\* every standalone digit run is an id, so "7,10" gives {7, 10}.
C2_MarkupGating ==
  step # "text" =>
    /\ isHTML(text) => Range(itemIds) = LinkTargetIds(text) \cup UrlIds(text) \cup ColonIds(text)
    /\ ~isHTML(text) => Range(itemIds) = StandaloneRuns(text) \cup UrlIds(text) \cup ColonIds(text)
    /\ text = AnchorChunk \o <<" ", "7">> => itemIds = << <<"1", "2">> >>
    /\ text = <<"7", ",", "1", "0">> => Range(itemIds) = {<<"7">>, <<"1", "0">>}
C2_Witness ==
  /\ step = "extracted"
  /\ text = AnchorChunk \o <<" ", "7">>
  /\ itemIds = << <<"1", "2">> >>
  /\ <<"7">> \in StandaloneRuns(text)

RECURSIVE SplitCommas(_, _)
\* the tokens of a comma-separated list; cur is the token being read
SplitCommas(s, cur) ==
  IF s = <<>> THEN <<cur>>
  ELSE IF s[1] = "," THEN <<cur>> \o SplitCommas(Tail(s), <<>>)
  ELSE SplitCommas(Tail(s), Append(cur, s[1]))
IsToken(t) == Len(t) >= 3 /\ t[1] = "i" /\ t[2] = ":" /\ IsDigitString(SubSeq(t, 3, Len(t)))

\* C3: a non-empty output written by convertToTSM is a comma-separated list
\* of tokens i:<decimal digits>, whatever the lookups returned.
C3_TokenShape ==
  \A c \in Calls :
    (calls[c].exit = "success" /\ output # <<>>) =>
       \A k \in 1..Len(SplitCommas(output, <<>>)) : IsToken(SplitCommas(output, <<>>)[k])

\* C4: the rendered ids are in ascending numeric order, whatever order the
\* patterns and the lookups added them in.
C4_AscendingOrder ==
  \A c \in Calls :
    calls[c].exit = "success" =>
       /\ output = tsmFormat(calls[c].sortedIds)
       /\ \A i, j \in 1..Len(calls[c].sortedIds) :
            (i < j /\ ~IsNaN(calls[c].sortedIds[i]) /\ ~IsNaN(calls[c].sortedIds[j]))
               => Number(calls[c].sortedIds[i]) <= Number(calls[c].sortedIds[j])

\* C5: no fault of the resolver, the building of the lookup URL included,
\* reaches convertToTSM: no activation ends rejected.
C5_NeverRaises == \A c \in Calls : calls[c].pc # "rejected"

\* C6: every name whose lookup reported failure is, when its conversion has
\* ended, in the message on the page with its name and its lookup URL.
C6_FailuresReported ==
  \A c \in Calls :
    calls[c].pc \in {"done", "rejected"} =>
       \A k \in 1..Len(calls[c].failedSearches) :
          [href |-> calls[c].failedSearches[k].searchUrl,
           label |-> escapeHtml(calls[c].failedSearches[k].name)] \in Range(message.links)

RECURSIVE BracketedNames(_, _)
\* The names of a text made up only of bracketed names (blanks and commas may
\* separate them); the element <<"other">> is appended when the text holds anything else.
BracketedNames(s, p) ==
  IF p > Len(s) THEN <<>>
  ELSE IF s[p] \in {" ", ","} THEN BracketedNames(s, p + 1)
  ELSE IF s[p] = "[" /\ At(s, p + 1) \notin {"]", "EOF"} /\ At(s, Until(s, p + 1, {"]"})) = "]"
  THEN <<SubSeq(s, p + 1, Until(s, p + 1, {"]"}) - 1)>> \o BracketedNames(s, Until(s, p + 1, {"]"}) + 1)
  ELSE << <<"other">> >>
OnlyBracketedNames(s) ==
  /\ BracketedNames(s, 1) # <<>>
  /\ <<"other">> \notin Range(BracketedNames(s, 1))
  /\ UrlIds(s) \cup ColonIds(s) = {}
ExpectedFailures(s) ==
  [k \in 1..Len(BracketedNames(s, 1)) |->
     [name |-> BracketedNames(s, 1)[k],
      searchUrl |-> <<"https://www.wowhead.com/items?filter=na=">>
                      \o encodeURIComponent(BracketedNames(s, 1)[k])]]
NoDigits(s) == \A k \in 1..Len(s) : ~IsDigit(s[k])

\* C8 as stated: with every lookup reporting failure, an input made up only of
\* bracketed names (no URLs, no item:/i: tokens, no numbers outside the
\* brackets) gives no ids and one failed-lookup record per name, in order,
\* with the name and its lookup URL.
C8_AsStated ==
  \A c \in Calls :
    (calls[c].pc = "done" /\ OnlyBracketedNames(calls[c].input) /\ calls[c].foundItems = <<>>) =>
       /\ calls[c].sortedIds = <<>>
       /\ calls[c].failedSearches = ExpectedFailures(calls[c].input)

\* C8 amended: the same for such an input that holds no digit at all, inside
\* the brackets included.
C8_NoDigits ==
  \A c \in Calls :
    (/\ calls[c].pc = "done"
     /\ OnlyBracketedNames(calls[c].input)
     /\ NoDigits(calls[c].input)
     /\ calls[c].foundItems = <<>>) =>
       /\ calls[c].sortedIds = <<>>
       /\ calls[c].failedSearches = ExpectedFailures(calls[c].input)
C8_Witness ==
  /\ calls[1].pc = "done"
  /\ calls[1].input = <<"[", "n", "]", " ", "[", "n", "]">>
  /\ calls[1].sortedIds = <<>>
  /\ Len(calls[1].failedSearches) = 2

\* C9 as stated: at most one resolver round-trip is in flight at any moment.
C9_OneInFlight == Cardinality(inflight) <= 1

\* C9 amended: within each activation of convertToTSM at most one round-trip
\* is in flight, and it is the lookup of the next name in order of appearance,
\* issued after all earlier lookups of that activation returned; an activation
\* that finishes has looked up every name.
C9_OneInFlightPerCall ==
  \A c \in Calls :
    /\ Cardinality(InFlight(c)) <= 1
    /\ (calls[c].pc \in {"fetch", "text"}) = (InFlight(c) # {})
    /\ (calls[c].pc = "done" /\ calls[c].exit # "blank") =>
         Len(calls[c].failedSearches) + Len(calls[c].foundItems)
            = Len(extractItemNames(calls[c].input))
    /\ \A r \in InFlight(c) :
         /\ r.k = Len(calls[c].failedSearches) + Len(calls[c].foundItems) + 1
         /\ r.k <= Len(extractItemNames(calls[c].input))
         /\ r.target = <<"https://www.wowhead.com/items?filter=na=">>
                         \o encodeURIComponent(extractItemNames(calls[c].input)[r.k])
C9_Witness ==
  /\ Cardinality(inflight) = 2
  /\ \E r \in inflight : r.k = 2

\* C10: once every activation has finished, the output and both counts show
\* the result of the activation that started last; and the ids of every
\* activation are those of its own input and of its own lookups.
C10_LatestWins ==
  /\ \A c \in Calls :
       Range(calls[c].itemIds) =
          Range(extractItemIds(calls[c].input))
             \cup {calls[c].foundItems[k].id : k \in 1..Len(calls[c].foundItems)}
  /\ (/\ started >= 2
      /\ \A c \in 1..started : calls[c].pc \in {"done", "rejected"}
      /\ calls[started].exit \in {"success", "manual", "novalid"}) =>
        /\ output = tsmFormat(calls[started].sortedIds)
        /\ itemCount = Len(calls[started].sortedIds)
        /\ uniqueCount = Len(calls[started].sortedIds)
====
